---- MODULE Spec2Model ----
(***************************************************************************)
(* The per-resource lock manager of the KPI dashboard backend              *)
(* (utils/concurrency.js: LockManager, the stale-lock sweep timer and      *)
(* concurrencyMiddleware) together with the way server.js mounts the       *)
(* middleware in front of the resource routers.                            *)
(*                                                                         *)
(* Time is Date.now() in milliseconds.  Node runs every callback to        *)
(* completion, so each action below is one callback of the event loop:     *)
(* a request's arrival (the middleware up to its first await), one wake-up *)
(* of the 100 ms poll timer, the response leaving, the connection closing, *)
(* one firing of the 60 s sweep interval.  Timers fire when they are due.  *)
(***************************************************************************)
EXTENDS Integers, Sequences, FiniteSets, TLC

\* ------------------------------------------------------------- bounds
\* The number of requests / direct callers; each is issued once, in the
\* order of their numbers.
NumReq == 3
\* The clock stops at this instant (ms): two periods of the sweep.
MaxTime == 120000
\* The number of requests issued when the server's wiring is examined.
NumWired == 2
\* The number of requests issued when the timers are taken to keep firing.
NumLive == 2
\* The number of direct callers when the LockManager is used on its own.
NumApi == 3
\* The number of direct callers while other code asks isLocked.
NumQuery == 2
\* The number of direct callers while the logging sink can throw.
NumFault == 2
\* The number of getNextId calls.
NumCallers == 3
\* The longest initial list and the most pending updates of the hook.
MaxItems == 2
MaxPending == 2
\* The most retries a caller of apiRequest asks for.
MaxRetries == 3
\* The number of PUT requests sent to the jobs router.
NumPut == 2

\* ------------------------------------------------- program constants
\* setTimeout(resolve, 100) in the poll loop.
PollInterval == 100
\* acquireLock's default maxWaitTime.
DefaultMaxWait == 5000
\* cleanupStaleLocks: now - lock.timestamp > 30000.
StaleAge == 30000
\* setInterval(() => lockManager.cleanupStaleLocks(), 60000).
SweepInterval == 60000

\* ------------------------------------------------------------ inputs
Requests == 1..NumReq
\* The instants at which the outside world acts: a request arrives, a handler
\* ends its response, a client closes its connection, a direct caller calls.
EnvInstants ==
    {0, DefaultMaxWait + 50, StaleAge, StaleAge + 50, SweepInterval - 50, SweepInterval}
\* maxWaitTime arguments a direct caller of acquireLock passes.
MaxWaits == {200}
\* HTTP methods of the requests.
Methods == {"GET", "POST", "PUT", "PATCH", "DELETE"}
\* The methods of the requests sent to one route of the router.
RouteMethods == {"PUT"}
\* (resourceType, resourceId) pairs a direct caller passes to acquireLock.
Pairs == {<<"job", "4:2">>, <<"job:4", "2">>}
\* The pairs the callers pass when the LockManager is used on its own.
ApiPairs == {<<"job", "1">>, <<"job", "2">>}
\* The last path segment of the request URLs /api/jobs/<id>.
UrlIds == {"42"}
\* req.params.id when the matched layer captured no :id.
NoId == "undefined"
\* No instant: the value of a local that is not in scope.
Never == 0 - 1

VARIABLES
    now,        \* Date.now()
    locks,      \* LockManager.locks: lock key -> {timestamp, resourceType, resourceId}
    nextSweep,  \* the instant the sweep interval fires next
    pc,         \* where each request is
    req,        \* each request's inputs
    startTime,  \* acquireLock's startTime while the request is in acquireLock
    wakeAt,     \* the instant a polling request's setTimeout fires
    hook,       \* whether res.on('finish', release) is registered
    aborted,    \* whether, and where, the client closed the request's connection
    owns,       \* history: the entry this request inserted is still in the table
    waited,     \* history: the request slept in the poll loop at least once
    endWait,    \* history: Date.now() - startTime when acquireLock threw
    relResult,  \* history: what the request's releaseLock call returned
    reclaimed,  \* history: the sweep removed the entry this request inserted
    relInTime,  \* history: while the request polled, before its maxWaitTime had
                \*          elapsed, a holder of its key called releaseLock
    stolen,     \* history: after that, another caller inserted the key
    lateFree,   \* history: while the request polled, its key's entry was removed
                \*          later than maxWaitTime after the request began
    found,      \* history: the entry acquireLock found under its key when it
                \*          began: the request that inserted it and how old it was
    thrown,     \* history: the message of the error acquireLock threw
    res,        \* the response the middleware itself wrote for the request
    relAgain,   \* history: what a second releaseLock call right after the
                \*          first returned
    up,         \* the server process is running
    failed,     \* history: a run of cleanupStaleLocks ended in an exception
    asked,      \* history: what the last isLocked call on each resource returned
    file,       \* jobs.json: job id -> the requests whose update the job carries
    snap,       \* the jobs array each PUT handler got from readJobs()
    wrote,      \* the PUT handler's writeJobs() has completed
    seqFile,    \* sequences.json: sequence name -> counter
    seqPc,      \* where each getNextId call is
    seqName,    \* the sequenceName each getNextId call was given
    seqCopy,    \* the sequences object each call parsed and incremented
    seqRet,     \* what each getNextId call returned (0: not yet)
    items,          \* useOptimisticUpdates: state.items
    pendingUpdates, \* useOptimisticUpdates: state.pendingUpdates
    optClock,       \* Date.now() in the browser, in ms since the hook was made
    optPc,          \* "unmounted", "idle", "applied" (an operation ran), "reverted"
    itemsBefore,    \* history: items before the last optimistic operation
    lastUpdate,     \* history: the pending update the last operation recorded
    alone,          \* history: no update was pending when the last operation ran
    retries,        \* apiRequest: the retries of the merged config
    attempt,        \* apiRequest: the loop variable
    fetchPc,        \* apiRequest: "idle", "fetching", "sleeping", "returned", "threw"
    lastError,      \* apiRequest: the error caught last
    returned,       \* the attempt whose body apiRequest returned (none: Never)
    tried           \* history: how each fetch of the call ended

\* The state of the lock manager and of the requests going through it.
lockVars == <<now, locks, nextSweep, pc, req, startTime, wakeAt, hook, aborted,
              owns, waited, endWait, relResult, reclaimed, relInTime, stolen, lateFree,
              found, thrown, res, relAgain>>
\* The jobs file and the PUT handlers' copies of it.
jobVars == <<file, snap, wrote>>
\* What no step of the lock manager or of the middleware touches.
\* The process that runs the timers and the handlers.
procVars == <<up, failed>>
\* The sequence file and the getNextId calls in flight.
seqVars == <<seqFile, seqPc, seqName, seqCopy, seqRet>>
\* What the jobs router and the lock manager's own callers do not touch.
\* The state of the useOptimisticUpdates hook and what is remembered of it.
optVars == <<items, pendingUpdates, optClock, optPc, itemsBefore, lastUpdate, alone>>
\* One apiRequest call of the frontend.
fetchVars == <<retries, attempt, fetchPc, lastError, returned, tried>>
apartVars == <<seqVars, optVars, fetchVars>>
extVars == <<procVars, asked, jobVars, apartVars>>

vars == <<lockVars, extVars>>

\* ---------------------------------------------------------- requests
\* A request that has not been issued yet.
NoReq == [via |-> "none", method |-> "", rtype |-> "", id |-> "", maxWait |-> 0]

\* The path server.js mounts the jobs router under, with the middleware in
\* front of it: app.use('/api/jobs', concurrencyMiddleware('job'), jobsRouter).
UseMountPath == << <<"lit", "api">>, <<"lit", "jobs">> >>
\* A route of the router itself, router.put('/:id', ...), as the path of a
\* layer that captures the identifier.
RouteMountPath == << <<"lit", "api">>, <<"lit", "jobs">>, <<"param", "id">> >>
MountPath(via) == IF via = "use" THEN UseMountPath ELSE RouteMountPath
\* The resource type the middleware factory is given at that mount.
MountType == "job"
\* The URL /api/jobs/<id> as path segments.
Url(id) == <<"api", "jobs", id>>

\* Express fills req.params from the named segments of the path of the layer
\* that runs the middleware; a name the path does not have is undefined.
ParamId(path, url) ==
    LET at == {i \in 1..Len(path) : path[i] = <<"param", "id">> /\ i <= Len(url)}
    IN  IF at = {} THEN NoId ELSE url[CHOOSE i \in at : TRUE]

\* const resourceId = req.params.id (a direct caller passes it itself)
ResourceIdOf(q) ==
    IF q.via = "api" THEN q.id ELSE ParamId(MountPath(q.via), Url(q.id))
ResourceId(r) == ResourceIdOf(req[r])
ResourceType(r) == req[r].rtype

\* A slip: only the empty string is tested, resourceId === ''.
FalsyOnlyEmpty(id) == id = ""
\* !resourceId
Falsy(id) == id = NoId \/ id = ""
\* A slip: the method test lists GET as well.
IsMutatingOrGet(m) == m \in {"PUT", "DELETE", "PATCH", "GET"}
\* ['PUT', 'DELETE', 'PATCH'].includes(req.method)
IsMutating(m) == m \in {"PUT", "DELETE", "PATCH"}
\* if (!resourceId || !['PUT','DELETE','PATCH'].includes(req.method)) return next()
SkipsLock(q) == Falsy(ResourceIdOf(q)) \/ ~IsMutating(q.method)

\* ------------------------------------------------------- LockManager
\* A slip: the key leaves the id out, `${resourceType}:`.
getLockKeyTypeOnly(resourceType, resourceId) == resourceType \o ":"
\* _getLockKey: `${resourceType}:${resourceId}`
getLockKey(resourceType, resourceId) == resourceType \o ":" \o resourceId
LockKeyOf(q) == getLockKey(q.rtype, ResourceIdOf(q))
LockKey(r) == LockKeyOf(req[r])

\* A slip: the test reads this.waitingOperations, the map nothing ever fills.
HasLockWaitingOperations(k) == FALSE
\* A slip: the test asks whether any lock is held (this.locks.size > 0).
HasLockAnyKey(k) == DOMAIN locks # {}
\* this.locks.has(lockKey)
HasLock(k) == k \in DOMAIN locks
\* A slip: the test asks for any entry of the resource type.
isLockedOfType(t, id) == \E k \in DOMAIN locks : locks[k].resourceType = t
\* isLocked(resourceType, resourceId)
isLocked(t, id) == HasLock(getLockKey(t, id))
\* A slip: the elapsed time is not taken, Date.now() > maxWaitTime.
WaitExpiredAbsolute(t, st, maxWaitTime) == t > maxWaitTime
\* A slip: the operands are swapped, startTime - Date.now() > maxWaitTime.
WaitExpiredSwapped(t, st, maxWaitTime) == st - t > maxWaitTime
\* Date.now() - startTime > maxWaitTime, at the instant t, startTime being st
WaitExpired(t, st, maxWaitTime) == t - st > maxWaitTime
\* A slip: the age is compared in seconds, now - lock.timestamp > 30.
IsStaleSeconds(k) == now - locks[k].timestamp > StaleAge \div 1000
\* A slip: the comparison is >=, an entry of exactly 30000 ms is removed.
IsStaleInclusive(k) == now - locks[k].timestamp >= StaleAge
\* A slip: the operands are swapped, lock.timestamp - now > 30000.
IsStaleSwapped(k) == locks[k].timestamp - now > StaleAge
\* now - lock.timestamp > 30000
IsStale(k) == now - locks[k].timestamp > StaleAge

\* A slip: the entry is stored under resourceId, not under lockKey.
LocksSetUnderId(k, t, id) ==
    [kk \in DOMAIN locks \cup {id} |->
        IF kk = id THEN [timestamp |-> now, resourceType |-> t, resourceId |-> id]
        ELSE locks[kk]]
\* this.locks.set(lockKey, {timestamp: Date.now(), resourceType, resourceId})
LocksSet(k, t, id) ==
    [kk \in DOMAIN locks \cup {k} |->
        IF kk = k THEN [timestamp |-> now, resourceType |-> t, resourceId |-> id]
        ELSE locks[kk]]
\* this.locks.delete(key) for every key of ks
LocksDelete(ks) == [kk \in DOMAIN locks \ ks |-> locks[kk]]
\* A slip: a caller that gives up or sleeps drops the entry it waits for.
LocksAfterWaitDeletes(k) == LocksDelete({k})
\* The table after a pass of acquireLock's loop that found the key held: the
\* loop body only tests the clock, logs, throws or sleeps.
LocksAfterWait(k) == locks
\* A slip: the whole table is cleared, this.locks.clear().
ReleasedKeysAll(k) == DOMAIN locks
\* A slip: the delete is left out, releaseLock only reports.
ReleasedKeysNone(k) == {}
\* the keys releaseLock deletes when called for key k: k itself, if held
ReleasedKeys(k) == IF HasLock(k) THEN {k} ELSE {}
\* the keys one run of cleanupStaleLocks deletes
StaleKeys == {k \in DOMAIN locks : IsStale(k)}

\* The requests that have been issued, and those asleep in the poll loop.
Issued == {r \in Requests : pc[r] # "new"}
Polling == {r \in Requests : pc[r] = "polling"}
\* The instants at which a timer is due.
Due == {nextSweep} \cup {wakeAt[r] : r \in Polling}
Min(S) == CHOOSE x \in S : \A y \in S : x <= y
\* The passes the poll loop of a polling request makes from now on, should
\* the table stay as it is: pass n runs at wakeAt + n * PollInterval.
Passes(r) == 0..(req[r].maxWait \div PollInterval + 2)
PassTime(r, n) == wakeAt[r] + n * PollInterval
\* The instant of the first pass that does more than go back to sleep (the
\* key is free and the pass inserts, or the wait has expired and it throws).
ActingPass(r, n) ==
    ~HasLock(LockKey(r)) \/ WaitExpired(PassTime(r, n), startTime[r], req[r].maxWait)
ActingWakeTimes(r) ==
    {PassTime(r, n) : n \in {m \in Passes(r) :
        ActingPass(r, m) /\ (m = 0 \/ ~ActingPass(r, m - 1))}}
\* The instant of the first pass at or after the instant t.
WakeFrom(r, t) ==
    IF t <= wakeAt[r] THEN wakeAt[r]
    ELSE wakeAt[r] + PollInterval * ((t - wakeAt[r] + PollInterval - 1) \div PollInterval)

\* The request whose inserted entry is the one under key k, and what a call
\* that begins now finds under k.
OwnerOf(k) == CHOOSE h \in Requests : pc[h] # "new" /\ owns[h] /\ LockKey(h) = k
NoEntry == [owner |-> 0, age |-> "none"]
\* The ages of a found entry the history tells apart: 50 ms, more than the
\* staleness age, any other.
AgeClass(a) == IF a = 50 THEN "50" ELSE IF a > StaleAge THEN "stale" ELSE "other"
Found(k) ==
    IF k \in DOMAIN locks
    THEN [owner |-> OwnerOf(k), age |-> AgeClass(now - locks[k].timestamp)]
    ELSE NoEntry

\* History kept when the entries of the keys ks leave the table.
Removed(ks) ==
    /\ owns' = [x \in Requests |-> owns[x] /\ ~(x \in Issued /\ LockKey(x) \in ks)]
    /\ lateFree' = [x \in Requests |->
          lateFree[x] \/ ( /\ pc[x] = "polling"
                           /\ LockKey(x) \in ks
                           /\ now - startTime[x] > req[x].maxWait )]

\* throw new Error('Lock acquisition timeout')
TimeoutMessage == "Lock acquisition timeout"
\* The message of an error the acquisition attempt raises otherwise.
FaultMessages == {"timer failure"}
NoMessage == ""
\* res.status(409).json({error: 'Resource is currently being modified ...'})
ConflictResponse ==
    [status |-> 409, error |-> "Resource is currently being modified by another request"]
NoResponse == [status |-> 0, error |-> ""]

\* A slip: the catch block compares with another text than acquireLock throws.
CatchOtherText(message) ==
    IF message = "Lock timeout"
    THEN [to |-> "sent409", res |-> ConflictResponse]
    ELSE [to |-> "error", res |-> NoResponse]
\* A slip: the catch block answers 409 whatever the error.
CatchAll(message) == [to |-> "sent409", res |-> ConflictResponse]
\* The middleware's catch block: the timeout is answered with 409 and the
\* middleware returns; any other error goes to next(error).
Catch(message) ==
    IF message = TimeoutMessage
    THEN [to |-> "sent409", res |-> ConflictResponse]
    ELSE [to |-> "error", res |-> NoResponse]

\* Where a request goes when acquireLock returns true: the middleware
\* registers the 'finish' listener and calls next(); a direct caller goes on,
\* holding the lock.
OnAcquired(q) == IF q.via = "api" THEN "holding" ELSE "handler"
\* A slip: the catch block calls next() whatever the error.
OnTimeoutCallsNext(q) == IF q.via = "api" THEN "timeout" ELSE "handler"
\* Where it goes when acquireLock throws 'Lock acquisition timeout': the
\* middleware answers 409 and returns; a direct caller catches the error.
OnTimeout(q) == IF q.via = "api" THEN "timeout" ELSE Catch(TimeoutMessage).to
\* What the middleware has written to the response by then.
ResponseOnTimeout(q) == IF q.via = "api" THEN NoResponse ELSE Catch(TimeoutMessage).res

\* One pass through acquireLock's loop for request r (its inputs q, its
\* startTime st): the loop test, then either the insert and the return, or
\* the timeout test and either the throw or the next setTimeout.  Nothing is
\* awaited between the loop test and the insert.  When acquireLock returns,
\* the middleware registers the 'finish' listener and calls next(); when it
\* throws the timeout, the middleware answers 409.
AcquireLoop(r, q, st) ==
    LET k == LockKeyOf(q)
    IN  IF HasLock(k)
        THEN IF WaitExpired(now, st, q.maxWait)
             THEN /\ pc' = [pc EXCEPT ![r] = OnTimeout(q)]
                  /\ thrown' = [thrown EXCEPT ![r] = TimeoutMessage]
                  /\ res' = [res EXCEPT ![r] = ResponseOnTimeout(q)]
                  /\ endWait' = [endWait EXCEPT ![r] = now - st]
                  /\ startTime' = [startTime EXCEPT ![r] = Never]
                  /\ wakeAt' = [wakeAt EXCEPT ![r] = Never]
                  /\ locks' = LocksAfterWait(k)
                  /\ UNCHANGED <<hook, owns, waited, stolen>>
             ELSE /\ pc' = [pc EXCEPT ![r] = "polling"]
                  /\ startTime' = [startTime EXCEPT ![r] = st]
                  /\ wakeAt' = [wakeAt EXCEPT ![r] = now + PollInterval]
                  /\ waited' = [waited EXCEPT ![r] = TRUE]
                  /\ locks' = LocksAfterWait(k)
                  /\ UNCHANGED <<hook, owns, endWait, stolen, thrown, res>>
        ELSE /\ locks' = LocksSet(k, q.rtype, ResourceIdOf(q))
             /\ owns' = [owns EXCEPT ![r] = TRUE]
             /\ stolen' = [x \in Requests |->
                   stolen[x] \/ (x # r /\ pc[x] = "polling" /\ LockKey(x) = k
                                 /\ relInTime[x])]
             /\ hook' = [hook EXCEPT ![r] = q.via # "api"]
             /\ pc' = [pc EXCEPT ![r] = OnAcquired(q)]
             /\ startTime' = [startTime EXCEPT ![r] = Never]
             /\ wakeAt' = [wakeAt EXCEPT ![r] = Never]
             /\ UNCHANGED <<waited, endWait, thrown, res>>

\* releaseLock(resourceType, resourceId) called by request r.
ReleaseLock(r) ==
    LET k == LockKey(r)
    IN  /\ relResult' = [relResult EXCEPT ![r] = IF HasLock(k) THEN "true" ELSE "false"]
        /\ locks' = LocksDelete(ReleasedKeys(k))
        /\ Removed(ReleasedKeys(k))
        /\ relInTime' = [x \in Requests |->
              relInTime[x] \/ ( /\ pc[x] = "polling"
                                /\ LockKey(x) = k
                                /\ now - startTime[x] < req[x].maxWait )]

\* ---------------------------------------------------------- jobs.json
\* The ids of the jobs in jobs.json, and the :id segments that name them.
JobIds == {42, 43}
JobUrlIds == {"42", "43"}
\* parseInt(req.params.id)
ParseInt(id) == CASE id = "42" -> 42 [] id = "43" -> 43 [] OTHER -> 0
\* A handler that has not called readJobs() yet.
NoSnap == [j \in {} |-> {}]
\* jobs[jobIndex] = {...jobs[jobIndex], ...req.body} on the handler's copy:
\* the job carries the request's update, every other job is as it was read.
UpdatedJobs(jobs, jobId, r) == [jobs EXCEPT ![jobId] = @ \cup {r}]

\* ------------------------------------------------------ sequences.json
\* The getNextId calls, and the sequences they are made for.
Callers == 1..NumCallers
SeqNames == {"jobs", "incidents"}
\* sequences[sequenceName] = (sequences[sequenceName] || 0) + 1 on the parsed
\* object: the other counters are as they were read.
Incremented(sequences, name) == [sequences EXCEPT ![name] = @ + 1]

\* ------------------------------------------------ useOptimisticUpdates
\* The items of the list and the partial updates applied to them.
ItemIds == {1, 2}
ItemNames == {"a", "b"}
Items == [id : ItemIds, name : ItemNames]
Updates == [name : ItemNames]
\* initialItems: lists of up to MaxItems items, each id at most once.
InitialItems ==
    {list \in UNION {[1..n -> Items] : n \in 0..MaxItems} :
        \A i, j \in 1..Len(list) : i # j => list[i].id # list[j].id}
\* An optional field: <<v>> when it is set, <<>> when it is undefined.
Undefined == <<>>
NoUpdate == [id |-> 0, type |-> "none", data |-> Undefined, timestamp |-> 0]
\* { ...item, ...updates }
Spread(item, updates) ==
    [f \in DOMAIN item \cup DOMAIN updates |->
        IF f \in DOMAIN updates THEN updates[f] ELSE item[f]]
\* list.map(f), list.filter(keep) on sequences
RECURSIVE MapSpread(_, _, _)
MapSpread(list, id, updates) ==
    IF list = <<>> THEN <<>>
    ELSE <<IF Head(list).id = id THEN Spread(Head(list), updates) ELSE Head(list)>>
         \o MapSpread(Tail(list), id, updates)
RECURSIVE FilterOutId(_, _)
FilterOutId(list, id) ==
    IF list = <<>> THEN <<>>
    ELSE (IF Head(list).id # id THEN <<Head(list)>> ELSE <<>>) \o FilterOutId(Tail(list), id)
\* prev.pendingUpdates.filter(u => u.id === update.id && u.timestamp <
\* update.timestamp).sort((a, b) => b.timestamp - a.timestamp)[0]?.data :
\* the data of the latest earlier pending update of the same id, the first of
\* them in the list when several have that timestamp (the sort is stable).
Earlier(pending, update) ==
    {i \in 1..Len(pending) :
        pending[i].id = update.id /\ pending[i].timestamp < update.timestamp}
PreviousState(pending, update) ==
    LET E == Earlier(pending, update)
    IN  IF E = {} THEN Undefined
        ELSE LET i == CHOOSE j \in E :
                        \A l \in E : \/ pending[l].timestamp < pending[j].timestamp
                                      \/ (pending[l].timestamp = pending[j].timestamp /\ j <= l)
             IN  pending[i].data
\* revertUpdate's new items, by the type of the update
RevertedItems(list, pending, update) ==
    CASE update.type = "create" -> FilterOutId(list, update.id)
      [] update.type = "update" ->
            LET previousState == PreviousState(pending, update)
            IN  IF previousState # Undefined
                THEN MapSpread(list, update.id, previousState[1])
                ELSE list
      [] update.type = "delete" ->
            IF update.data # Undefined THEN list \o update.data ELSE list
      [] OTHER -> list
\* prev.pendingUpdates.filter(u => u.id !== update.id)
RECURSIVE FilterOutPending(_, _)
FilterOutPending(pending, id) ==
    IF pending = <<>> THEN <<>>
    ELSE (IF Head(pending).id # id THEN <<Head(pending)>> ELSE <<>>)
         \o FilterOutPending(Tail(pending), id)

\* ------------------------------------------------------- apiRequest
\* defaultConfig.retries
DefaultRetries == 3
\* The retries a caller can pass in config.
RetriesGiven == 0..MaxRetries
\* How one fetch of the call can end: an ok response with a JSON body, an ok
\* response whose body is not JSON (res.status(204).send() has none), a
\* response that is not ok, and a fetch that rejects.
Outcomes == {"ok json", "ok no json", "not ok", "rejected"}
ResponseOk(outcome) == outcome \in {"ok json", "ok no json"}
\* What the try block does with the outcome: the error it throws, or none
\* when response.json() resolves and the data is returned.
NoError == [name |-> "", attempt |-> Never]
Thrown(outcome, n) ==
    CASE outcome = "ok json" -> NoError
      [] outcome = "ok no json" -> [name |-> "SyntaxError", attempt |-> n]
      [] outcome = "not ok" -> [name |-> "ApiError", attempt |-> n]
      [] OTHER -> [name |-> "TypeError", attempt |-> n]

\* -------------------------------------------------------------- Init
Init ==
    /\ now = 0
    /\ locks = << >>
    /\ nextSweep = SweepInterval
    /\ pc = [r \in Requests |-> "new"]
    /\ req = [r \in Requests |-> NoReq]
    /\ startTime = [r \in Requests |-> Never]
    /\ wakeAt = [r \in Requests |-> Never]
    /\ hook = [r \in Requests |-> FALSE]
    /\ aborted = [r \in Requests |-> "no"]
    /\ owns = [r \in Requests |-> FALSE]
    /\ waited = [r \in Requests |-> FALSE]
    /\ endWait = [r \in Requests |-> Never]
    /\ relResult = [r \in Requests |-> "none"]
    /\ reclaimed = [r \in Requests |-> FALSE]
    /\ relInTime = [r \in Requests |-> FALSE]
    /\ stolen = [r \in Requests |-> FALSE]
    /\ lateFree = [r \in Requests |-> FALSE]
    /\ found = [r \in Requests |-> NoEntry]
    /\ thrown = [r \in Requests |-> NoMessage]
    /\ res = [r \in Requests |-> NoResponse]
    /\ relAgain = [r \in Requests |-> "none"]
    /\ up = TRUE
    /\ failed = FALSE
    /\ asked = [p \in ApiPairs |-> "none"]
    /\ file = [j \in JobIds |-> {}]
    /\ snap = [r \in Requests |-> NoSnap]
    /\ wrote = [r \in Requests |-> FALSE]
    /\ seqFile = [n \in SeqNames |-> 0]
    /\ seqPc = [c \in Callers |-> "idle"]
    /\ seqName = [c \in Callers |-> ""]
    /\ seqCopy = [c \in Callers |-> seqFile]
    /\ seqRet = [c \in Callers |-> 0]
    /\ items = <<>>
    /\ pendingUpdates = <<>>
    /\ optClock = 0
    /\ optPc = "unmounted"
    /\ itemsBefore = <<>>
    /\ lastUpdate = NoUpdate
    /\ alone = TRUE
    /\ retries = DefaultRetries
    /\ attempt = 0
    /\ fetchPc = "idle"
    /\ lastError = NoError
    /\ returned = Never
    /\ tried = <<>>

\* ----------------------------------------------------------- actions
\* Request r is the next one to be issued.
IsNext(r) == pc[r] = "new" /\ \A x \in Requests : x < r => pc[x] # "new"

\* A request reaches concurrencyMiddleware(resourceType): either it is passed
\* on at once, or acquireLock starts and runs up to its first await.
Arrive(r, via, m, id) ==
    LET q == [via |-> via, method |-> m, rtype |-> MountType, id |-> id,
              maxWait |-> DefaultMaxWait]
    IN  /\ IsNext(r)
        /\ now \in EnvInstants
        /\ req' = [req EXCEPT ![r] = q]
        /\ IF SkipsLock(q)
           THEN /\ pc' = [pc EXCEPT ![r] = "handler"]
                /\ UNCHANGED <<locks, startTime, wakeAt, hook, owns, waited, endWait,
                               stolen, found, thrown, res>>
           ELSE /\ AcquireLoop(r, q, now)
                /\ found' = [found EXCEPT ![r] = Found(LockKeyOf(q))]
        /\ UNCHANGED <<now, nextSweep, aborted, relResult, reclaimed, relInTime, lateFree,
                       relAgain>>
        /\ up /\ UNCHANGED extVars

\* A caller outside the middleware calls lockManager.acquireLock directly.
ApiAcquire(r, t, id, mw) ==
    LET q == [via |-> "api", method |-> "", rtype |-> t, id |-> id, maxWait |-> mw]
    IN  /\ IsNext(r)
        /\ now \in EnvInstants
        /\ req' = [req EXCEPT ![r] = q]
        /\ AcquireLoop(r, q, now)
        /\ found' = [found EXCEPT ![r] = Found(LockKeyOf(q))]
        /\ UNCHANGED <<now, nextSweep, aborted, relResult, reclaimed, relInTime, lateFree,
                       relAgain>>
        /\ up /\ UNCHANGED extVars

\* The poll timer of a waiting request fires: the loop runs once more.
Poll(r) ==
    /\ pc[r] = "polling"
    /\ wakeAt[r] <= now
    /\ AcquireLoop(r, req[r], startTime[r])
    /\ UNCHANGED <<now, nextSweep, req, aborted, relResult, reclaimed, relInTime, lateFree,
                   found, relAgain>>
    /\ up /\ UNCHANGED extVars

\* The route handler (or the error handler after it) ends the response, with
\* a success body or an error body alike.  On a live connection 'finish' is
\* emitted and the registered listener releases the lock; on a connection
\* the client has closed nothing is handed to the socket and 'finish' is
\* never emitted.
Respond(r) ==
    /\ pc[r] = "handler"
    /\ now \in EnvInstants
    /\ pc' = [pc EXCEPT ![r] = "done"]
    /\ IF aborted[r] = "no" /\ hook[r]
       THEN ReleaseLock(r)
       ELSE UNCHANGED <<locks, owns, relResult, relInTime, lateFree>>
    /\ UNCHANGED <<now, nextSweep, req, startTime, wakeAt, hook, aborted, waited,
                   endWait, reclaimed, stolen, found, thrown, res, relAgain>>
    /\ up /\ UNCHANGED extVars

\* The client closes the connection of a request that is waiting for the lock
\* or being handled after it took one.  Neither the middleware nor
\* acquireLock listens for it.
Abort(r) ==
    /\ pc[r] \in {"polling", "handler"}
    /\ now \in EnvInstants
    /\ req[r].via # "api"
    /\ ~SkipsLock(req[r])
    /\ aborted[r] = "no"
    /\ aborted' = [aborted EXCEPT ![r] = IF pc[r] = "polling" THEN "waiting" ELSE "handling"]
    /\ UNCHANGED <<now, locks, nextSweep, pc, req, startTime, wakeAt, hook, owns,
                   waited, endWait, relResult, reclaimed, relInTime, stolen, lateFree,
                   found, thrown, res, relAgain>>
    /\ up /\ UNCHANGED extVars

\* The acquisition attempt of a waiting request raises an error that is not
\* the timeout, when its poll timer fires: the catch block gets it.
Fault(r, message) ==
    /\ pc[r] = "polling"
    /\ wakeAt[r] <= now
    /\ req[r].via # "api"
    /\ pc' = [pc EXCEPT ![r] = Catch(message).to]
    /\ res' = [res EXCEPT ![r] = Catch(message).res]
    /\ thrown' = [thrown EXCEPT ![r] = message]
    /\ startTime' = [startTime EXCEPT ![r] = Never]
    /\ wakeAt' = [wakeAt EXCEPT ![r] = Never]
    /\ UNCHANGED <<now, locks, nextSweep, req, hook, aborted, owns, waited, endWait,
                   relResult, reclaimed, relInTime, stolen, lateFree, found, relAgain>>
    /\ up /\ UNCHANGED extVars

\* A direct caller that holds the lock calls lockManager.releaseLock.
ApiRelease(r) ==
    /\ pc[r] = "holding"
    /\ now \in EnvInstants
    /\ pc' = [pc EXCEPT ![r] = "released"]
    /\ ReleaseLock(r)
    /\ UNCHANGED <<now, nextSweep, req, startTime, wakeAt, hook, aborted, waited,
                   endWait, reclaimed, stolen, found, thrown, res, relAgain>>
    /\ up /\ UNCHANGED extVars

\* A direct caller that holds the lock calls lockManager.releaseLock twice in
\* a row, as an error-handling path that releases again does: the second
\* call runs on the table the first one left.
ApiReleaseTwice(r) ==
    LET k == LockKey(r)
        first == LocksDelete(ReleasedKeys(k))
        again == IF k \in DOMAIN first THEN {k} ELSE {}
    IN  /\ pc[r] = "holding"
        /\ now \in EnvInstants
        /\ pc' = [pc EXCEPT ![r] = "released"]
        /\ relResult' = [relResult EXCEPT ![r] = IF HasLock(k) THEN "true" ELSE "false"]
        /\ relAgain' = [relAgain EXCEPT ![r] = IF again # {} THEN "true" ELSE "false"]
        /\ locks' = [kk \in DOMAIN first \ again |-> first[kk]]
        /\ Removed(ReleasedKeys(k) \cup again)
        /\ relInTime' = [x \in Requests |->
              relInTime[x] \/ ( /\ pc[x] = "polling"
                                /\ LockKey(x) = k
                                /\ now - startTime[x] < req[x].maxWait )]
        /\ UNCHANGED <<now, nextSweep, req, startTime, wakeAt, hook, aborted, waited,
                       endWait, reclaimed, stolen, found, thrown, res>>
        /\ up /\ UNCHANGED extVars

\* Some code calls lockManager.isLocked(t, id) and gets its answer.
IsLockedCall(t, id) ==
    /\ up
    /\ now \in EnvInstants
    /\ asked' = [asked EXCEPT ![<<t, id>>] = IF isLocked(t, id) THEN "true" ELSE "false"]
    /\ UNCHANGED <<lockVars, procVars, jobVars, apartVars>>

\* The sweep interval fires: cleanupStaleLocks().
Sweep ==
    /\ nextSweep <= now
    /\ locks' = LocksDelete(StaleKeys)
    /\ Removed(StaleKeys)
    /\ reclaimed' = [r \in Requests |->
          reclaimed[r] \/ (owns[r] /\ LockKey(r) \in StaleKeys)]
    /\ nextSweep' = nextSweep + SweepInterval
    /\ UNCHANGED <<now, pc, req, startTime, wakeAt, hook, aborted, waited,
                   endWait, relResult, relInTime, stolen, found, thrown, res, relAgain>>
    /\ up /\ UNCHANGED extVars

\* The keys a run of cleanupStaleLocks can have deleted when the logger.warn
\* that follows a delete throws: the Map is walked in insertion order, so the
\* run has dealt with the stale entries inserted before the one it stopped at.
SweptBeforeThrow ==
    {D \in SUBSET StaleKeys :
        /\ D # {}
        /\ \A k \in D, j \in StaleKeys :
              locks[j].timestamp < locks[k].timestamp => j \in D}

\* The sweep interval fires and logger.warn throws inside the loop of
\* cleanupStaleLocks: the entry just deleted stays deleted, the rest of the
\* loop is not run, and the exception leaves the interval callback.  Nothing
\* catches it there and the process has no 'uncaughtException' handler, so
\* the process ends, and with it the timer and the table.
SweepFault ==
    /\ up
    /\ nextSweep <= now
    /\ \E D \in SweptBeforeThrow :
          /\ locks' = LocksDelete(D)
          /\ Removed(D)
          /\ reclaimed' = [r \in Requests |->
                reclaimed[r] \/ (owns[r] /\ LockKey(r) \in D)]
    /\ up' = FALSE
    /\ failed' = TRUE
    /\ UNCHANGED <<now, nextSweep, pc, req, startTime, wakeAt, hook, aborted, waited,
                   endWait, relResult, relInTime, stolen, found, thrown, res, relAgain>>
    /\ UNCHANGED <<asked, jobVars, apartVars>>

\* Time passes up to the next instant at which something can change: the
\* outside world acts, the sweep fires, or a poll pass inserts or throws.  The
\* poll passes before that instant find their key held and their wait not
\* expired, and go back to sleep: all they change is when the timer fires next.
Tick ==
    LET acting == UNION {ActingWakeTimes(r) : r \in Polling}
        next == Min({t \in acting \cup {nextSweep} \cup EnvInstants \cup {MaxTime} : t > now})
    IN  /\ now < MaxTime
        /\ \A t \in Due : t > now
        /\ now' = next
        /\ wakeAt' = [r \in Requests |->
              IF pc[r] = "polling" THEN WakeFrom(r, next) ELSE wakeAt[r]]
        /\ UNCHANGED <<locks, nextSweep, pc, req, startTime, hook, aborted, owns,
                       waited, endWait, relResult, reclaimed, relInTime, stolen, lateFree,
                       found, thrown, res, relAgain>>
        /\ up /\ UNCHANGED extVars

\* The PUT handler's readJobs() completes: the handler has its copy of the
\* file as it is now.
ReadJobs(r) ==
    /\ up
    /\ pc[r] = "handler"
    /\ req[r].method = "PUT"
    /\ snap[r] = NoSnap
    /\ now \in EnvInstants
    /\ snap' = [snap EXCEPT ![r] = file]
    /\ UNCHANGED <<lockVars, procVars, asked, file, wrote, apartVars>>

\* The PUT handler updates its job in its copy and writeJobs(jobs) completes:
\* the file is the handler's copy.
WriteJobs(r) ==
    /\ up
    /\ pc[r] = "handler"
    /\ snap[r] # NoSnap
    /\ ~wrote[r]
    /\ now \in EnvInstants
    /\ file' = UpdatedJobs(snap[r], ParseInt(req[r].id), r)
    /\ wrote' = [wrote EXCEPT ![r] = TRUE]
    /\ UNCHANGED <<lockVars, procVars, asked, snap, apartVars>>

\* res.json(updatedJob): the PUT handler answers after its write.
RespondJob(r) ==
    /\ wrote[r]
    /\ Respond(r)

\* A route handler calls getNextId(name); initializeSequences() finds the
\* file and the read is issued.
GetNextId(c, name) ==
    /\ seqPc[c] = "idle"
    /\ \A d \in Callers : d < c => seqPc[d] # "idle"
    /\ seqPc' = [seqPc EXCEPT ![c] = "reading"]
    /\ seqName' = [seqName EXCEPT ![c] = name]
    /\ UNCHANGED <<seqFile, seqCopy, seqRet>>
    /\ UNCHANGED <<lockVars, procVars, asked, jobVars, optVars, fetchVars>>

\* fs.readFile resolves: the call parses the file as it is now, increments
\* its counter in the parsed object and issues the write.
SeqRead(c) ==
    /\ seqPc[c] = "reading"
    /\ seqCopy' = [seqCopy EXCEPT ![c] = Incremented(seqFile, seqName[c])]
    /\ seqPc' = [seqPc EXCEPT ![c] = "writing"]
    /\ UNCHANGED <<seqFile, seqName, seqRet>>
    /\ UNCHANGED <<lockVars, procVars, asked, jobVars, optVars, fetchVars>>

\* fs.writeFile resolves: the file is the call's object, and the call returns
\* the counter of that object.
SeqWrite(c) ==
    /\ seqPc[c] = "writing"
    /\ seqFile' = seqCopy[c]
    /\ seqRet' = [seqRet EXCEPT ![c] = seqCopy[c][seqName[c]]]
    /\ seqPc' = [seqPc EXCEPT ![c] = "done"]
    /\ UNCHANGED <<seqName, seqCopy>>
    /\ UNCHANGED <<lockVars, procVars, asked, jobVars, optVars, fetchVars>>

\* A component mounts and calls useOptimisticUpdates(initialItems).
UseOptimisticUpdates(initialItems) ==
    /\ optPc = "unmounted"
    /\ items' = initialItems
    /\ itemsBefore' = initialItems
    /\ optPc' = "idle"
    /\ UNCHANGED <<pendingUpdates, optClock, lastUpdate, alone>>
    /\ UNCHANGED <<lockVars, procVars, asked, jobVars, seqVars, fetchVars>>

\* What every optimistic operation does besides changing items: it records
\* a pending update stamped Date.now(), the clock having moved on or not.
Optimistic(newItems, update) ==
    /\ optPc \in {"idle", "applied"}
    /\ \E t \in {optClock, optClock + 1} :
          LET u == [update EXCEPT !.timestamp = t]
          IN  /\ optClock' = t
              /\ pendingUpdates' = Append(pendingUpdates, u)
              /\ lastUpdate' = u
    /\ items' = newItems
    /\ itemsBefore' = items
    /\ alone' = (pendingUpdates = <<>>)
    /\ optPc' = "applied"
    /\ UNCHANGED <<lockVars, procVars, asked, jobVars, seqVars, fetchVars>>

\* optimisticCreate(item)
OptimisticCreate(item) ==
    /\ Len(pendingUpdates) < MaxPending
    /\ Optimistic(Append(items, item),
                  [id |-> item.id, type |-> "create", data |-> <<item>>, timestamp |-> 0])

\* optimisticUpdate(id, updates)
OptimisticUpdate(id, updates) ==
    /\ Len(pendingUpdates) < MaxPending
    /\ Optimistic(MapSpread(items, id, updates),
                  [id |-> id, type |-> "update", data |-> <<updates>>, timestamp |-> 0])

\* optimisticDelete(id)
OptimisticDelete(id) ==
    /\ Len(pendingUpdates) < MaxPending
    /\ Optimistic(FilterOutId(items, id),
                  [id |-> id, type |-> "delete", data |-> Undefined, timestamp |-> 0])

\* The request behind the last operation failed: handleError(error, update)
\* with the pending update that operation recorded.
HandleError ==
    /\ optPc = "applied"
    /\ items' = RevertedItems(items, pendingUpdates, lastUpdate)
    /\ pendingUpdates' = FilterOutPending(pendingUpdates, lastUpdate.id)
    /\ optPc' = "reverted"
    /\ UNCHANGED <<optClock, itemsBefore, lastUpdate, alone>>
    /\ UNCHANGED <<lockVars, procVars, asked, jobVars, seqVars, fetchVars>>

\* A component calls apiRequest(endpoint, config): the loop starts.
ApiRequest(given) ==
    /\ fetchPc = "idle"
    /\ retries' = given
    /\ attempt' = 0
    /\ fetchPc' = "fetching"
    /\ UNCHANGED <<lastError, returned, tried>>
    /\ UNCHANGED <<lockVars, procVars, asked, jobVars, seqVars, optVars>>

\* The fetch of this attempt ends and the rest of the loop body runs: the
\* data is returned, or the error is caught and kept, and then the call
\* sleeps before the next attempt or, after the last one, leaves the loop
\* and throws lastError.
Fetch(outcome) ==
    LET error == Thrown(outcome, attempt)
    IN  /\ fetchPc = "fetching"
        /\ tried' = Append(tried, outcome)
        /\ IF error = NoError
           THEN /\ returned' = attempt
                /\ fetchPc' = "returned"
                /\ UNCHANGED <<lastError, attempt>>
           ELSE /\ lastError' = error
                /\ IF attempt < retries
                   THEN fetchPc' = "sleeping" /\ UNCHANGED attempt
                   ELSE fetchPc' = "threw" /\ attempt' = attempt + 1
                /\ UNCHANGED returned
        /\ UNCHANGED retries
        /\ UNCHANGED <<lockVars, procVars, asked, jobVars, seqVars, optVars>>

\* The retryDelay timer fires: attempt++ and the next fetch is issued.
RetryTimer ==
    /\ fetchPc = "sleeping"
    /\ attempt' = attempt + 1
    /\ fetchPc' = "fetching"
    /\ UNCHANGED <<retries, lastError, returned, tried>>
    /\ UNCHANGED <<lockVars, procVars, asked, jobVars, seqVars, optVars>>

\* The lock manager under load: requests to a route that sees the
\* identifier, direct callers, the poll timers and the sweep.  A handler may
\* never respond, so an entry may stay as long as after a closed connection;
\* the closed connection itself is in NextWiring.
Next ==
    \/ \E r \in Requests, m \in RouteMethods, id \in UrlIds : Arrive(r, "route", m, id)
    \/ \E r \in Requests, p \in Pairs, mw \in MaxWaits : ApiAcquire(r, p[1], p[2], mw)
    \/ \E r \in Requests : Poll(r)
    \/ \E r \in Requests : Respond(r)
    \/ \E r \in Requests : ApiRelease(r)
    \/ Sweep
    \/ Tick

Spec == Init /\ [][Next]_vars

\* The LockManager used directly: callers of acquireLock and releaseLock on
\* two resources of one type, some releasing twice in a row.
NextApi ==
    \/ \E r \in 1..NumApi, p \in ApiPairs, mw \in MaxWaits : ApiAcquire(r, p[1], p[2], mw)
    \/ \E r \in Requests : Poll(r)
    \/ \E r \in Requests : ApiRelease(r)
    \/ \E r \in Requests : ApiReleaseTwice(r)
    \/ Sweep
    \/ Tick

SpecApi == Init /\ [][NextApi]_vars

\* The jobs router behind the middleware: PUT requests for two jobs, through
\* the mount of server.js and through a route that sees the identifier.
NextJobs ==
    \/ \E r \in 1..NumPut, via \in {"use", "route"}, id \in JobUrlIds :
          Arrive(r, via, "PUT", id)
    \/ \E r \in Requests : Poll(r)
    \/ \E r \in Requests : ReadJobs(r)
    \/ \E r \in Requests : WriteJobs(r)
    \/ \E r \in Requests : RespondJob(r)
    \/ Sweep
    \/ Tick

SpecJobs == Init /\ [][NextJobs]_vars

\* The LockManager used directly, with callers that ask isLocked.
NextQuery ==
    \/ \E r \in 1..NumQuery, p \in ApiPairs, mw \in MaxWaits : ApiAcquire(r, p[1], p[2], mw)
    \/ \E r \in Requests : Poll(r)
    \/ \E r \in Requests : ApiRelease(r)
    \/ \E p \in ApiPairs : IsLockedCall(p[1], p[2])
    \/ Sweep
    \/ Tick

SpecQuery == Init /\ [][NextQuery]_vars

\* The lock manager with a logging sink that can throw during a sweep.
NextFault ==
    \/ \E r \in 1..NumFault, p \in ApiPairs, mw \in MaxWaits : ApiAcquire(r, p[1], p[2], mw)
    \/ \E r \in Requests : Poll(r)
    \/ \E r \in Requests : ApiRelease(r)
    \/ Sweep
    \/ SweepFault
    \/ Tick

SpecFault == Init /\ [][NextFault]_vars

\* Route handlers that create records and ask for ids while others do.
NextSeq ==
    \/ \E c \in Callers, name \in SeqNames : GetNextId(c, name)
    \/ \E c \in Callers : SeqRead(c)
    \/ \E c \in Callers : SeqWrite(c)

SpecSeq == Init /\ [][NextSeq]_vars

\* A component that edits its list optimistically and reverts on failure.
NextOpt ==
    \/ \E initialItems \in InitialItems : UseOptimisticUpdates(initialItems)
    \/ \E item \in Items : OptimisticCreate(item)
    \/ \E id \in ItemIds, updates \in Updates : OptimisticUpdate(id, updates)
    \/ \E id \in ItemIds : OptimisticDelete(id)
    \/ HandleError

SpecOpt == Init /\ [][NextOpt]_vars

\* One apiRequest call against a server and a network that answer as they like.
NextRetry ==
    \/ \E given \in RetriesGiven : ApiRequest(given)
    \/ \E outcome \in Outcomes : Fetch(outcome)
    \/ RetryTimer

SpecRetry == Init /\ [][NextRetry]_vars

\* The same with the timers of the event loop firing: the clock advances, a
\* due setTimeout of the poll loop runs, the setInterval of the sweep runs.
NextLive ==
    \/ \E r \in 1..NumLive, m \in RouteMethods, id \in UrlIds : Arrive(r, "route", m, id)
    \/ \E r \in 1..NumLive, p \in Pairs, mw \in MaxWaits : ApiAcquire(r, p[1], p[2], mw)
    \/ \E r \in Requests : Poll(r)
    \/ \E r \in Requests : Respond(r)
    \/ \E r \in Requests : ApiRelease(r)
    \/ Sweep
    \/ Tick

Fairness ==
    /\ WF_vars(Tick)
    /\ WF_vars(Sweep)
    /\ \A r \in Requests : WF_vars(Poll(r))

SpecLive == Init /\ [][NextLive]_vars /\ Fairness

\* The server as it is wired: requests of every method, to the middleware as
\* server.js mounts it and to a route that sees the identifier, and clients
\* that close the connection, and acquisition attempts that fail.
NextWiring ==
    \/ \E r \in 1..NumWired, via \in {"use", "route"}, m \in Methods, id \in UrlIds :
          Arrive(r, via, m, id)
    \/ \E r \in Requests : Poll(r)
    \/ \E r \in Requests : Respond(r)
    \/ \E r \in Requests : Abort(r)
    \/ \E r \in Requests, message \in FaultMessages : Fault(r, message)
    \/ Sweep
    \/ Tick

SpecWiring == Init /\ [][NextWiring]_vars

\* ============================================================ claims
\* The key a request locks, for the requests that call acquireLock.
Locking == {r \in Issued : req[r].via = "api" \/ ~SkipsLock(req[r])}
Keys == {LockKey(r) : r \in Locking}
\* acquireLock returned true to the request.
Acquired(r) == hook[r] \/ pc[r] \in {"holding", "released"}
\* A holder: acquireLock returned true and releaseLock was not called yet.
Holder(r) == Acquired(r) /\ relResult[r] = "none"
Holders(k) == {r \in Locking : Holder(r) /\ LockKey(r) = k}
\* The requests whose own entry is in the table.
Owners(k) == {r \in Locking : owns[r] /\ LockKey(r) = k}
\* The request's acquireLock ended in the timeout error.
TimedOut(r) == pc[r] \in {"timeout", "sent409"}

\* C1 as stated: in every reachable state, with acquireLock, releaseLock and
\* the periodic cleanupStaleLocks all running, every key has at most one
\* holder.
C1_OneHolderPerKey == \A k \in Keys : Cardinality(Holders(k)) <= 1

\* C1 as amended: every key has at most one holder as long as cleanupStaleLocks
\* has not removed the entry of a holder of that key that had not released.
C1_OneHolderUnlessReclaimed ==
    \A k \in Keys :
        (\A r \in Locking : LockKey(r) = k => ~reclaimed[r])
            => Cardinality(Holders(k)) <= 1

\* C1's case: after a sweep has run, one request holds a key another polls
\* for, and a third has held and released it.
C1_Witness ==
    \E a, b, c \in Locking :
        /\ nextSweep > SweepInterval
        /\ Holder(a) /\ pc[b] = "polling" /\ relResult[c] = "true"
        /\ LockKey(a) = LockKey(b) /\ LockKey(b) = LockKey(c)
        /\ \A r \in Locking : ~reclaimed[r]

\* C2: the loop test and the insert are one step: whatever the order of the
\* poll wake-ups, a key has at most one request whose inserted entry is still
\* in the table, and it is in the table exactly when there is one.
C2_AtomicCheckAndInsert ==
    \A k \in Keys \cup DOMAIN locks :
        /\ Cardinality(Owners(k)) <= 1
        /\ HasLock(k) <=> Owners(k) # {}

\* C2's case: two requests polled for one key, it became free, one of them
\* has just inserted and the other's poll timer is due at the same instant.
C2_Witness ==
    \E a, b \in Locking :
        /\ a # b /\ LockKey(a) = LockKey(b)
        /\ pc[a] = "polling" /\ wakeAt[a] <= now
        /\ owns[b] /\ waited[b] /\ locks[LockKey(b)].timestamp = now

\* C3 as stated: a request that acquired its lock through the middleware has
\* no entry left in the table once its response has ended, whether with a
\* success body, an error body, or on a connection the client closed.
C3_ReleasedOnEveryExit ==
    \A r \in Locking : (pc[r] = "done" /\ hook[r]) => ~owns[r]

\* C4 as stated: once cleanupStaleLocks has removed a holder's entry, that
\* holder's later releaseLock removes nothing.
C4_ReclaimedReleaseRemovesNothing ==
    \A r \in Locking : reclaimed[r] => relResult[r] # "true"

\* C5 as stated: a call that began while the key was held, whose holder then
\* called releaseLock before maxWaitTime had elapsed since the call began,
\* does not end in the timeout error, however many others poll the key.
C5_ReleaseInTimeMeansSuccess ==
    \A r \in Locking : TimedOut(r) => ~relInTime[r]

\* C5 as amended: such a call does not end in the timeout error unless
\* another caller inserted the key after that release, before the call's
\* next poll.
C5_ReleaseInTimeMeansSuccessUnlessOvertaken ==
    \A r \in Locking : TimedOut(r) => (~relInTime[r] \/ stolen[r])

\* C5's case: a request waited, the holder released in time, nobody overtook
\* it, and acquireLock returned true to it.
C5_Witness ==
    \E r \in Locking : waited[r] /\ relInTime[r] /\ ~stolen[r] /\ Acquired(r)

\* C6: a call whose key stays held ends in the timeout error no earlier than
\* maxWaitTime and no later than maxWaitTime plus one poll interval after it
\* began, and does not go on polling beyond that.
C6_TimeoutWithinOnePoll ==
    \A r \in Locking :
        /\ TimedOut(r) => /\ endWait[r] >= req[r].maxWait
                          /\ endWait[r] <= req[r].maxWait + PollInterval
        /\ pc[r] = "polling" => now - startTime[r] <= req[r].maxWait + PollInterval

\* C6's case: acquireLock(k, 200) on a held key has thrown, 300 ms after it
\* began.
C6_Witness ==
    \E r \in Locking :
        pc[r] = "timeout" /\ req[r].maxWait = 200 /\ endWait[r] = 200 + PollInterval

\* C7 as stated: of two concurrent mutating requests for one (type, id), the
\* second does not reach the handler when the first holds the lock longer
\* than the second's maxWaitTime (the entry the second waits on leaves the
\* table later than maxWaitTime after the second began).
C7_LongHoldMeansConflict ==
    \A r \in Locking : (req[r].via # "api" /\ lateFree[r]) => ~hook[r]

\* C7 as amended: when the first's entry is still in the table at the second's
\* first poll after maxWaitTime has elapsed, the middleware answers the second
\* with 409 and never hands it to the handler, while the first was handed to
\* it: exactly one of the two reaches the handler.
C7_HeldAtExpiredPollMeansConflict ==
    /\ [](\A b \in Requests : pc[b] = "sent409" => (~hook[b] /\ ~owns[b]))
    /\ [][\A b \in Requests :
            ( /\ pc[b] = "polling" /\ req[b].via # "api"
              /\ wakeAt[b] <= now
              /\ HasLock(LockKey(b))
              /\ now - startTime[b] > req[b].maxWait
              /\ (pc'[b] # pc[b] \/ wakeAt'[b] # wakeAt[b]) )
            => ( /\ pc'[b] = "sent409"
                 /\ locks' = locks
                 /\ \E a \in Owners(LockKey(b)) : a # b /\ hook[a] )]_vars

\* C7's case: the first request is in the handler with its entry in the table
\* and the second, for the same key, was answered 409.
C7_Witness ==
    \E a, b \in Locking :
        /\ a # b /\ LockKey(a) = LockKey(b)
        /\ pc[a] = "handler" /\ hook[a] /\ owns[a]
        /\ pc[b] = "sent409" /\ waited[b]

\* C8 as stated: with the middleware mounted as server.js mounts it, a PUT,
\* PATCH or DELETE request to /api/jobs/<id> holds the lock job:<id> while its
\* route handler runs.
C8_DeployedRequestHoldsLock ==
    \A r \in Issued :
        (req[r].via = "use" /\ IsMutating(req[r].method) /\ pc[r] = "handler")
            => HasLock(getLockKey(MountType, req[r].id))

\* C9 as stated: a request whose connection was closed while it was polling
\* inside acquireLock never inserts an entry afterwards.
C9_AbortedWaiterNeverInserts ==
    \A r \in Issued : aborted[r] = "waiting" => (~hook[r] /\ ~owns[r])

\* C10 as stated: a call waits only on an entry of its own (resourceType,
\* resourceId) pair, and distinct pairs never share a lock-table key.
C10_ContendOnlyOnEqualPairs ==
    /\ \A r \in Locking :
          (pc[r] = "polling" /\ HasLock(LockKey(r)))
              => /\ locks[LockKey(r)].resourceType = ResourceType(r)
                 /\ locks[LockKey(r)].resourceId = ResourceId(r)
    /\ \A a, b \in Locking :
          LockKey(a) = LockKey(b)
              => (ResourceType(a) = ResourceType(b) /\ ResourceId(a) = ResourceId(b))

\* The holder of the entry the request found never released: the entry is
\* still in the table, or the sweep is what removed it.
NeverReleased(h) == h # 0 /\ (owns[h] \/ reclaimed[h])

\* C11: a call with the default maxWaitTime that begins 50 ms after a holder
\* acquired the key, the holder never releasing, ends in the timeout error
\* between 5000 and 5100 ms after it began and never returns true; the
\* holder's entry is reclaimed by the sweep only after that call has ended.
C11_TimeoutBeforeSweep ==
    \A w \in Locking :
        ( /\ found[w].age = "50"
          /\ req[w].maxWait = DefaultMaxWait
          /\ NeverReleased(found[w].owner) )
        => /\ ~Acquired(w) /\ ~owns[w]
           /\ pc[w] # "polling" =>
                 /\ TimedOut(w)
                 /\ endWait[w] >= DefaultMaxWait
                 /\ endWait[w] <= DefaultMaxWait + PollInterval
           /\ reclaimed[found[w].owner] => TimedOut(w)

\* C11's case: the waiter that began 50 ms after the holder has timed out
\* 5100 ms after it began, and a later sweep has reclaimed the holder's entry.
C11_Witness ==
    \E w \in Locking :
        /\ found[w].age = "50" /\ req[w].maxWait = DefaultMaxWait
        /\ TimedOut(w) /\ endWait[w] = DefaultMaxWait + PollInterval
        /\ reclaimed[found[w].owner]

\* C12 as stated: a call with the default maxWaitTime that begins when more
\* than 30000 ms have passed since the holder of its key acquired it, the
\* holder never releasing, finds the entry gone and returns true.
C12_RetryAfterStaleAgeSucceeds ==
    \A w \in Locking :
        ( /\ req[w].maxWait = DefaultMaxWait
          /\ found[w].age = "stale"
          /\ NeverReleased(found[w].owner) )
        => ~TimedOut(w)

\* C13: one run of cleanupStaleLocks removes exactly the entries older than
\* 30000 ms and leaves every entry of 30000 ms or less as it was; a call that
\* begins when its key has no entry, as right after the run that reclaimed
\* it, returns true without having slept in the poll loop.
C13_SweepRemovesExactlyStale ==
    /\ [](\A w \in Locking :
            found[w] = NoEntry => (Acquired(w) /\ ~waited[w] /\ ~TimedOut(w)))
    /\ [][nextSweep' # nextSweep =>
            /\ DOMAIN locks' \subseteq DOMAIN locks
            /\ \A k \in DOMAIN locks :
                  /\ k \in DOMAIN locks' <=> now - locks[k].timestamp <= 30000
                  /\ k \in DOMAIN locks' => locks'[k] = locks[k]]_vars

\* C13's case: the run at 60000 ms has removed one request's entry and kept
\* an entry that was exactly 30000 ms old, and a call for the reclaimed key
\* that began right after the run holds it with a fresh entry.
C13_Witness ==
    \E h, w \in Locking, k \in DOMAIN locks :
        /\ now = SweepInterval /\ nextSweep > SweepInterval
        /\ reclaimed[h] /\ w # h /\ LockKey(w) = LockKey(h)
        /\ found[w] = NoEntry /\ owns[w] /\ ~waited[w]
        /\ locks[LockKey(w)].timestamp = now
        /\ k # LockKey(w) /\ now - locks[k].timestamp = StaleAge

\* C14: with the sweep timer firing, every entry acquireLock inserted leaves
\* the table again, by releaseLock or by cleanupStaleLocks, also when its
\* holder never calls releaseLock.
C14_EveryEntryEventuallyRemoved ==
    \A r \in Requests : owns[r] ~> ~owns[r]

\* C14's case: the entry of a holder that never called releaseLock is gone,
\* removed by the sweep.
C14_Witness ==
    \E r \in Locking :
        Acquired(r) /\ relResult[r] = "none" /\ reclaimed[r] /\ ~owns[r]

\* C15: a request whose acquireLock threw the timeout inside the middleware
\* was answered by the middleware with status 409 and the message that the
\* resource is being modified by another request; it is never handed to the
\* wrapped handler and it inserted no entry.
C15_TimeoutAnswers409 ==
    \A r \in Issued :
        (req[r].via # "api" /\ thrown[r] = "Lock acquisition timeout")
        => /\ pc[r] = "sent409"
           /\ res[r].status = 409
           /\ res[r].error = "Resource is currently being modified by another request"
           /\ ~hook[r] /\ ~owns[r] /\ relResult[r] = "none"

\* C15's case: a request to the middleware has timed out on a key whose
\* entry, another request's, is still in the table.
C15_Witness ==
    \E r \in Locking :
        /\ req[r].via = "route" /\ thrown[r] = TimeoutMessage
        /\ endWait[r] > DefaultMaxWait
        /\ HasLock(LockKey(r)) /\ OwnerOf(LockKey(r)) # r

\* C16: a request whose acquisition attempt raised an error other than the
\* timeout was passed to next(error): the middleware wrote no 409 (and no
\* other response) for it, and it was not handed on as a normal request, with
\* the release listener registered.
C16_OtherErrorsPropagate ==
    \A r \in Issued :
        (thrown[r] # NoMessage /\ thrown[r] # "Lock acquisition timeout")
        => /\ pc[r] = "error"
           /\ res[r] = NoResponse
           /\ ~hook[r]

\* C16's case: the acquisition attempt of a waiting request failed with a
\* timer failure while another request held the key.
C16_Witness ==
    \E r \in Locking :
        /\ thrown[r] \in FaultMessages /\ waited[r] /\ pc[r] = "error"
        /\ HasLock(LockKey(r))

\* The request went through the middleware untouched by the lock: it is with
\* the handler or done, never slept in the poll loop, got no response from
\* the middleware, registered no release listener and owns no entry.
PassedThrough(r) ==
    /\ pc[r] \in {"handler", "done"}
    /\ ~waited[r] /\ thrown[r] = NoMessage /\ res[r] = NoResponse
    /\ ~hook[r] /\ ~owns[r] /\ relResult[r] = "none"

\* C17: a request to the middleware whose method is not PUT, PATCH or DELETE
\* is handed straight to the handler, also when its (type, id) is locked: it
\* never waits, is never answered 409 by the middleware, and no step of it
\* changes the lock table.
C17_ReadOnlyPassThrough ==
    /\ [](\A r \in Issued :
            (req[r].via # "api" /\ req[r].method \notin {"PUT", "PATCH", "DELETE"})
                => PassedThrough(r))
    /\ [][\A r \in Requests :
            ( /\ pc'[r] # pc[r]
              /\ req'[r].via # "api"
              /\ req'[r].method \notin {"PUT", "PATCH", "DELETE"} )
            => locks' = locks]_vars

\* C17's case: a GET for /api/jobs/42 is with the handler while job:42 is
\* locked by an earlier PUT that is still with the handler.
C17_Witness ==
    \E h, r \in Issued :
        /\ h < r /\ req[h].via = "route" /\ req[r].via = "route"
        /\ req[h].method = "PUT" /\ owns[h] /\ pc[h] = "handler"
        /\ req[r].method = "GET" /\ pc[r] = "handler"
        /\ HasLock(getLockKey(MountType, req[r].id))
        /\ req[h].id = req[r].id

\* C18: a PUT, PATCH or DELETE request for which the middleware sees no path
\* identifier is handed to the handler without acquiring, waiting on or
\* releasing any lock, and no step of it changes the lock table.
C18_NoIdentifierNoLock ==
    /\ [](\A r \in Issued :
            ( /\ req[r].via # "api"
              /\ req[r].method \in {"PUT", "PATCH", "DELETE"}
              /\ ParamId(MountPath(req[r].via), Url(req[r].id)) = NoId )
            => PassedThrough(r))
    /\ [][\A r \in Requests :
            ( /\ pc'[r] # pc[r]
              /\ req'[r].via \notin {"none", "api"}
              /\ req'[r].method \in {"PUT", "PATCH", "DELETE"}
              /\ ParamId(MountPath(req'[r].via), Url(req'[r].id)) = NoId )
            => locks' = locks]_vars

\* C18's case: a DELETE that reached the middleware without req.params.id has
\* been handled and answered while another request holds a lock.
C18_Witness ==
    \E h, r \in Issued :
        /\ h # r /\ owns[h] /\ pc[h] = "handler"
        /\ req[r].via = "use" /\ req[r].method = "DELETE" /\ pc[r] = "done"
        /\ ResourceId(r) = NoId

\* C19: releaseLock(k) returns true exactly when an entry for k was in the
\* table at the call, and after it no entry for k is in the table and every
\* other entry is as it was; on a key with no entry it returns false and the
\* caller goes on; the second of two releaseLock(k) calls in a row returns
\* false.
C19_ReleaseContract ==
    /\ [](\A r \in Requests : relAgain[r] # "none" => relAgain[r] = "false")
    /\ [][\A r \in Requests :
            relResult'[r] # relResult[r]
            => /\ relResult'[r] = "true" <=> LockKey(r) \in DOMAIN locks
               /\ relResult'[r] = "false" <=> LockKey(r) \notin DOMAIN locks
               /\ LockKey(r) \notin DOMAIN locks'
               /\ \A kk \in DOMAIN locks \ {LockKey(r)} :
                     kk \in DOMAIN locks' /\ locks'[kk] = locks[kk]
               /\ pc'[r] \in {"released", "done"}]_vars

\* C19's case: one caller released twice in a row, true then false, and
\* another, whose entry the sweep had removed, got false from its release.
C19_Witness ==
    \E r, x \in Locking :
        /\ relResult[r] = "true" /\ relAgain[r] = "false"
        /\ reclaimed[x] /\ relResult[x] = "false"

\* C20: a call on a key that has no entry returns true at once, without
\* sleeping, whatever entries other keys have, and leaves those entries as
\* they were; a caller only ever waits behind an entry of its own resource
\* type and id, so a lock on one id never delays a caller of another.
C20_IndependentAcrossKeys ==
    /\ [](\A w \in Locking :
            (waited[w] \/ TimedOut(w))
            => /\ found[w].owner # 0
               /\ ResourceType(found[w].owner) = ResourceType(w)
               /\ ResourceId(found[w].owner) = ResourceId(w))
    /\ [][\A w \in Requests :
            ( /\ pc[w] = "new" /\ pc'[w] # "new"
              /\ LockKeyOf(req'[w]) \notin DOMAIN locks )
            => /\ pc'[w] = "holding" /\ owns'[w] /\ ~waited'[w]
               /\ DOMAIN locks' = DOMAIN locks \cup {LockKeyOf(req'[w])}
               /\ \A kk \in DOMAIN locks : locks'[kk] = locks[kk]]_vars

\* C20's case: ("job", "1") and ("job", "2") are held at the same time, the
\* second acquired at once while the first was held and had a waiter.
C20_Witness ==
    \E a, b, c \in Locking :
        /\ a < b
        /\ ResourceId(a) = "1" /\ pc[a] = "holding" /\ owns[a]
        /\ ResourceId(b) = "2" /\ pc[b] = "holding" /\ owns[b] /\ ~waited[b]
        /\ found[b] = NoEntry
        /\ ResourceId(c) = "1" /\ pc[c] = "polling"

\* ------------------------------------------------ the jobs file (C21, C27)
\* PUT requests that went through the middleware at a mount and whose handler
\* has read the file.
PutsRead(vias) ==
    {r \in Issued : req[r].via \in vias /\ req[r].method = "PUT" /\ snap[r] # NoSnap}
\* b's readJobs() came after a's writeJobs(): the copy b works on has a's update.
ReadAfterWrite(a, b) == wrote[a] /\ a \in snap[b][ParseInt(req[a].id)]

\* C21: two overlapping PUT requests for the same job id that went through
\* concurrencyMiddleware('job') in front of the jobs router do not interleave
\* their read-modify-write of jobs.json: one of them read the file after the
\* other's write, and once both have written the job carries both updates.
C21_SameIdSerialized ==
    \A a, b \in PutsRead({"use"}) :
        (a # b /\ req[a].id = req[b].id)
        => /\ ReadAfterWrite(a, b) \/ ReadAfterWrite(b, a)
           /\ (wrote[a] /\ wrote[b]) => {a, b} \subseteq file[ParseInt(req[a].id)]

\* C27: two overlapping PUT requests for different job ids that went through
\* concurrencyMiddleware('job') in front of the jobs router both take effect:
\* after both responses are sent, jobs.json has both requests' updates.  This
\* is stated for the mount of server.js and for a mount that sees the id.
C27_CrossIdUpdatesKept ==
    \A a, b \in PutsRead({"use", "route"}) :
        (req[a].id # req[b].id /\ pc[a] = "done" /\ pc[b] = "done")
        => /\ a \in file[ParseInt(req[a].id)]
           /\ b \in file[ParseInt(req[b].id)]

\* C22: with the poll timers firing, every acquireLock call that is waiting
\* ends, by returning or by throwing the timeout, whatever the other callers
\* acquire and release; while it waits it is never further from its start
\* than maxWaitTime plus one poll interval, so no set of callers blocks one
\* another on the table for ever.
C22_NoCallerWaitsForever ==
    /\ \A r \in Requests : (pc[r] = "polling") ~> (Acquired(r) \/ TimedOut(r))
    /\ [](\A r \in Requests :
            pc[r] = "polling" => now - startTime[r] <= req[r].maxWait + PollInterval)

\* C22's case: a caller waited behind an entry whose holder never released it
\* and its call ended with the timeout while the entry was still there.
C22_Witness ==
    \E h, w \in Locking :
        /\ h # w /\ LockKey(h) = LockKey(w)
        /\ owns[h] /\ relResult[h] = "none"
        /\ waited[w] /\ TimedOut(w) /\ endWait[w] > req[w].maxWait

\* C23: a cleanupStaleLocks run that ended in an exception (the logger threw
\* while a reclamation was recorded) leaves the timer loop running: the
\* process that owns the interval is still up, so later sweeps still run.
C23_TimerSurvivesSweepFailure ==
    failed => up

\* C24: isLocked(type, id) returns true exactly when the table has an entry
\* for the key of (type, id) at the moment of the call, and the call leaves
\* the table as it was: no entry added, removed or changed.
C24_IsLockedPureQuery ==
    [][\A p \in ApiPairs :
         asked'[p] # asked[p]
         => /\ asked'[p] = "true" <=> getLockKey(p[1], p[2]) \in DOMAIN locks
            /\ asked'[p] = "false" <=> getLockKey(p[1], p[2]) \notin DOMAIN locks
            /\ locks' = locks]_vars

\* C24's case: with ("job", "1") held and ("job", "2") free, isLocked has
\* answered true for the first and false for the second.
C24_Witness ==
    /\ DOMAIN locks = {getLockKey("job", "1")}
    /\ asked[<<"job", "1">>] = "true"
    /\ asked[<<"job", "2">>] = "false"

\* C25: a releaseLock(k) call, whether it returns true or false, leaves every
\* key other than k as it was: a key that had an entry still has it, with the
\* timestamp it had, and a key that had none still has none.
C25_ReleaseFrame ==
    [][\A r \in Requests :
         relResult'[r] # relResult[r]
         => \A p \in ApiPairs :
              LET kk == getLockKey(p[1], p[2])
              IN  kk # LockKey(r)
                  => /\ kk \in DOMAIN locks' <=> kk \in DOMAIN locks
                     /\ kk \in DOMAIN locks
                        => locks'[kk].timestamp = locks[kk].timestamp]_vars

\* C25's case: while one resource was held since before the sweep, a caller
\* whose entry on the other resource the sweep had removed released and got
\* false, a later caller took and released that resource and got true, and
\* the held entry is still there.
C25_Witness ==
    \E x, r, y \in Locking :
        /\ x < r /\ LockKey(x) = LockKey(r) /\ LockKey(y) # LockKey(x)
        /\ reclaimed[x] /\ relResult[x] = "false"
        /\ relResult[r] = "true"
        /\ owns[y] /\ LockKey(y) \in DOMAIN locks
        /\ locks[LockKey(y)].timestamp < now

\* A step of request r's own acquireLock call that does not return: the call
\* starts and finds the key held, or a poll pass goes back to sleep, or the
\* call throws the timeout.
WaitStep(r) ==
    \/ pc'[r] # pc[r] /\ pc[r] \in {"new", "polling"}
                      /\ pc'[r] \in {"polling", "timeout", "sent409"}
    \/ pc[r] = "polling" /\ pc'[r] = "polling" /\ now' = now /\ wakeAt'[r] # wakeAt[r]

\* C26: an acquireLock call that ends in the timeout error changes nothing:
\* no step of its wait, the throw included, inserts, removes or alters an
\* entry, so the holder's entry and its timestamp are what they were, and the
\* caller itself has no entry.
C26_FailedAcquireChangesNothing ==
    /\ [][\A r \in Requests : WaitStep(r) => locks' = locks]_vars
    /\ [](\A r \in Locking : TimedOut(r) => ~owns[r] /\ ~hook[r])

\* C26's case: a call timed out, and the entry it waited behind is still the
\* one inserted before the call began.
C26_Witness ==
    \E w \in Locking :
        /\ TimedOut(w) /\ waited[w]
        /\ LockKey(w) \in DOMAIN locks
        /\ locks[LockKey(w)].timestamp + endWait[w] <= now
        /\ found[w].owner # 0 /\ owns[found[w].owner]

\* ------------------------------------------------------ getNextId (C28)
\* The getNextId calls for a sequence that have returned.
Returned(name) == {c \in Callers : seqPc[c] = "done" /\ seqName[c] = name}

\* C28: any two getNextId calls for the same sequence return different
\* values, also when their file read and file write overlap, and when no call
\* is in flight the stored counter has grown by the number of calls that
\* returned.
C28_UniqueIds ==
    /\ \A a, b \in Callers :
         (a # b /\ seqPc[a] = "done" /\ seqPc[b] = "done" /\ seqName[a] = seqName[b])
         => seqRet[a] # seqRet[b]
    /\ (\A c \in Callers : seqPc[c] \in {"idle", "done"})
       => \A name \in SeqNames : seqFile[name] = Cardinality(Returned(name))

\* ---------------------------------------------- optimistic revert (C29)
\* C29: after an optimistic create, update or delete applied with no other
\* update pending, handleError with the pending update the operation recorded
\* leaves items as the list was before the operation and that pending update
\* is gone.
C29_RevertIsRoundTrip ==
    (optPc = "reverted" /\ alone)
    => /\ items = itemsBefore
       /\ \A i \in 1..Len(pendingUpdates) : pendingUpdates[i] # lastUpdate

\* ------------------------------------------------- apiRequest (C30)
\* The fetches of the call that got an ok response.
OkAttempts == {i \in 1..Len(tried) : ResponseOk(tried[i])}

\* C30: apiRequest makes at most retries + 1 fetches; at the first fetch that
\* gets an ok response it stops and returns that response's body, with no
\* further fetch; and when it throws, every fetch failed and the error is the
\* one of the last fetch.
C30_BoundedRetry ==
    /\ Len(tried) <= retries + 1
    /\ OkAttempts # {}
       => /\ fetchPc = "returned"
          /\ OkAttempts = {Len(tried)}
          /\ returned = Len(tried) - 1
    /\ fetchPc = "threw"
       => /\ OkAttempts = {}
          /\ lastError.attempt = Len(tried) - 1

====
